---- MODULE Spec2Model ----
(***************************************************************************)
(* Instagram-Username-Checker (src/main.py): the batch run of              *)
(* Checker.start over the usernames read by open_file, one _check_one task *)
(* per valid username on a single-threaded asyncio event loop.             *)
(*                                                                         *)
(* A task runs without interruption from one suspension point to the next; *)
(* the suspension points are the semaphore acquisition, the network call   *)
(* and the backoff sleep, so each action below is one such run.            *)
(* Usernames and file lines are sequences of one-character strings.        *)
(***************************************************************************)
EXTENDS Integers, Sequences, FiniteSets, TLC

(***************************************************************************)
(* Bounds of the model.                                                    *)
(***************************************************************************)
MaxLines == 3
MaxConcurrency == 2
MaxRetries == 1
DeepRetries == 5

(***************************************************************************)
(* Program constants.                                                      *)
(***************************************************************************)
MaxUsernameLen == 30
BackoffCap == 10
AvailableStatus == 404

Min(a, b) == IF a <= b THEN a ELSE b
Max(a, b) == IF a >= b THEN a ELSE b
Range(s) == {s[i] : i \in 1..Len(s)}

RECURSIVE Pow2(_)
Pow2(n) == IF n <= 0 THEN 1 ELSE 2 * Pow2(n - 1)

(***************************************************************************)
(* Python values.  None and the JSON values a response body parses to are  *)
(* tagged records, so that 404, "404" and None stay different values.      *)
(***************************************************************************)
None == [j |-> "null"]
JInt(n) == [j |-> "int", n |-> n]
JStr(s) == [j |-> "str", s |-> s]  \* s: a sequence of characters
JList(l) == [j |-> "list", items |-> l]
JDict(d) == [j |-> "dict", fields |-> d]

\* Python truthiness, as used by `or`, `and` and `if`.
Truthy(v) ==
    CASE v.j = "null" -> FALSE
      [] v.j = "int" -> v.n # 0
      [] v.j = "str" -> v.s # <<>>
      [] v.j = "list" -> v.items # <<>>
      [] v.j = "dict" -> DOMAIN v.fields # {}

\* dict.get(key): the value, or None when the key is absent.
DictGet(d, key) == IF key \in DOMAIN d.fields THEN d.fields[key] ELSE None

(***************************************************************************)
(* open_file: strip every line, drop the empty ones, keep the first        *)
(* occurrence of each name in order.                                       *)
(***************************************************************************)
Whitespace == {" "}

RECURSIVE LStrip(_)
LStrip(s) == IF s # <<>> /\ Head(s) \in Whitespace THEN LStrip(Tail(s)) ELSE s

RECURSIVE RStrip(_)
RStrip(s) ==
    IF s # <<>> /\ s[Len(s)] \in Whitespace
    THEN RStrip(SubSeq(s, 1, Len(s) - 1))
    ELSE s

Strip(s) == RStrip(LStrip(s))

RECURSIVE StripLines(_)
StripLines(f) ==
    IF f = <<>> THEN <<>>
    ELSE (IF Strip(Head(f)) # <<>> THEN <<Strip(Head(f))>> ELSE <<>>)
         \o StripLines(Tail(f))

RECURSIVE DropDuplicatesFrom(_, _, _)
DropDuplicatesFrom(lines, seen, result) ==
    IF lines = <<>> THEN result
    ELSE IF Head(lines) \notin seen
         THEN DropDuplicatesFrom(Tail(lines), seen \cup {Head(lines)},
                                 Append(result, Head(lines)))
         ELSE DropDuplicatesFrom(Tail(lines), seen, result)

\* open_file without the `seen` set.
DropDuplicatesForgotten(lines) == lines

DropDuplicates(lines) == DropDuplicatesFrom(lines, {}, <<>>)

open_file(f) == DropDuplicates(StripLines(f))

(***************************************************************************)
(* is_valid_instagram_username.                                            *)
(***************************************************************************)
UsernameChars ==
    {"a", "b", "c", "d", "e", "f", "g", "h", "i", "j", "k", "l", "m",
     "n", "o", "p", "q", "r", "s", "t", "u", "v", "w", "x", "y", "z",
     "A", "B", "C", "D", "E", "F", "G", "H", "I", "J", "K", "L", "M",
     "N", "O", "P", "Q", "R", "S", "T", "U", "V", "W", "X", "Y", "Z",
     "0", "1", "2", "3", "4", "5", "6", "7", "8", "9", ".", "_"}

is_valid_instagram_username(username) ==
    /\ 1 <= Len(username) /\ Len(username) <= MaxUsernameLen
    /\ \A i \in 1..Len(username) : username[i] \in UsernameChars
    /\ ~(Head(username) = "." \/ username[Len(username)] = ".")

\* [u for u in xs if keep(u)]
RECURSIVE SelectSeq2(_, _)
SelectSeq2(xs, S) ==
    IF xs = <<>> THEN <<>>
    ELSE (IF Head(xs) \in S THEN <<Head(xs)>> ELSE <<>>) \o SelectSeq2(Tail(xs), S)

\* Checker.start without the validity filter.
ValidUsernamesUnfiltered(names) == names

ValidUsernames(names) ==
    SelectSeq2(names, {u \in Range(names) : is_valid_instagram_username(u)})

Skipped(names) ==
    SelectSeq2(names, Range(names) \ Range(ValidUsernames(names)))

(***************************************************************************)
(* What the network can do to one request: fail with aiohttp.ClientError   *)
(* or asyncio.TimeoutError, or deliver a response.                         *)
(***************************************************************************)
ConnectionFailure == [wire |-> "failure"]
HttpResponse(status) == [wire |-> "http", status |-> status]
JsonResponse(data) == [wire |-> "json", data |-> data]
NotJsonResponse == [wire |-> "notjson"]

Returned(status, raw) == [kind |-> "return", status |-> status, raw |-> raw]
TransportError == [kind |-> "TransportError"]
Raised(exc) == [kind |-> "raise", exc |-> exc]

\* data['results'][0] for a truthy data['results'].
FirstOf(v) ==
    CASE v.j = "list" -> Returned(None, v.items[1])
      [] v.j = "str" -> Returned(None, JStr(<<v.s[1]>>))
      [] v.j = "dict" -> Raised("KeyError")
      [] OTHER -> Raised("TypeError")

\* result.get('status_code') or result.get('status')
StatusOf(result) ==
    IF result.j = "dict"
    THEN IF Truthy(DictGet(result, "status_code"))
         THEN DictGet(result, "status_code")
         ELSE DictGet(result, "status")
    ELSE None

\* OxylabsClient.fetch_status_code, given what the POST came back with.
OxylabsFetch(resp) ==
    CASE resp.wire = "failure" -> TransportError
      [] resp.wire = "notjson" -> Raised("JSONDecodeError")
      [] resp.wire = "json" ->
           LET data == resp.data
               wrapped == /\ data.j = "dict"
                          /\ "results" \in DOMAIN data.fields
                          /\ Truthy(DictGet(data, "results"))
               first == FirstOf(DictGet(data, "results"))
           IN  IF wrapped
               THEN IF first.kind = "raise" THEN first
                    ELSE Returned(StatusOf(first.raw), first.raw)
               ELSE Returned(StatusOf(data), data)

\* DirectClient.fetch_status_code, given what the GET came back with.
DirectFetch(resp) ==
    CASE resp.wire = "failure" -> TransportError
      [] resp.wire = "http" -> Returned(JInt(resp.status), None)

fetch_status_code(client, resp) ==
    IF client = "OxylabsClient" THEN OxylabsFetch(resp) ELSE DirectFetch(resp)

(***************************************************************************)
(* Retry policy and classifier of Checker._check_one.                      *)
(***************************************************************************)
\* `attempt < self.retries`: the budget counted one short.
ShouldRetryOneShort(attempt, budget) == attempt < budget

ShouldRetry(attempt, budget) == attempt <= budget

\* `2 ** attempt`: the exponent one too high.
BackoffDelayDoubled(attempt) == Min(Pow2(attempt), BackoffCap)

BackoffDelay(attempt) == Min(Pow2(attempt - 1), BackoffCap)

\* The classifier without its `elif status_code is None` branch.
ClassifyWithoutUnknown(status_code) ==
    IF status_code = JInt(AvailableStatus) THEN "Hit" ELSE "Miss"

Classify(status_code) ==
    IF status_code = JInt(AvailableStatus) THEN "Hit"
    ELSE IF status_code = None THEN "Unknown"
    ELSE "Miss"

UrlOf(username) == <<"https://www.instagram.com/">> \o username \o <<"/">>

AvailableLine(url) == [line |-> "AVAILABLE", url |-> url]
UnknownLine(username, raw) == [line |-> "Unknown status", username |-> username, raw |-> raw]
UnavailableLine(url, status) == [line |-> "UNAVAILABLE", url |-> url, status |-> status]
ErrorLine(username) == [line |-> "ERROR", username |-> username]
SkippingLine(n) == [line |-> "Skipping invalid usernames", count |-> n]
NoValidLine == [line |-> "No valid usernames to check."]
UsingOxylabsLine == [line |-> "Using Oxylabs Real-Time Crawler API"]
FallbackLine == [line |-> "Falling back to direct requests"]

\* Checker.__init__
SemCapacity(concurrency) == Max(1, concurrency)
RetryBudget(n) == Max(0, n)

\* `if self.oxy_user or self.oxy_pass`
UseOxylabsEither(user, pass) == Truthy(user) \/ Truthy(pass)

\* `if self.oxy_user and self.oxy_pass`
UseOxylabs(user, pass) == Truthy(user) /\ Truthy(pass)

(***************************************************************************)
(* Inputs: the lines of the input file, the command line, and what the     *)
(* remote ends answer.                                                     *)
(***************************************************************************)
al == <<"a", "l">>
bo == <<"b", "o">>
cy == <<"c", "_", "y">>

Lines == {al, <<" ", "a", "l", " ">>, <<"b", "o", "!">>, bo}

OddLines ==
    { <<"j", "o", "h", "n", "_", "d", "o", "e">>, <<"a", ".", "b", ".", "c">>,
      [i \in 1..(MaxUsernameLen + 1) |-> "x"], [i \in 1..MaxUsernameLen |-> "x"],
      <<".", "l">>, <<"t", ".">>, <<"b", "$">>, <<" ">>, <<>> }

RECURSIVE FilesOfLength(_)
FilesOfLength(n) ==
    IF n = 0 THEN {<<>>}
    ELSE {Append(f, l) : f \in FilesOfLength(n - 1), l \in Lines}

Files == UNION {FilesOfLength(n) : n \in 0..MaxLines}

Credentials == {None, JStr(<<>>), JStr(<<"k">>)}

DirectStatuses == {200, 301, 403, 404, 500}

Bodies ==
    { None,
      JDict([k \in {"status_code"} |-> JInt(200)]),
      JDict([k \in {"status"} |-> JInt(404)]),
      JDict([k \in {"results"} |-> JList(<<JDict([c \in {"status_code"} |-> JInt(404)])>>)]),
      JDict([k \in {"results"} |-> JList(<<>>)]),
      JDict([k \in {"status_code", "status"} |->
                IF k = "status_code" THEN JInt(0) ELSE JInt(404)]),
      JList(<<JInt(404)>>),
      JDict([k \in {"results"} |-> JDict([c \in {"status_code"} |-> JInt(404)])]) }

Responses(client) ==
    IF client = "OxylabsClient"
    THEN {ConnectionFailure, NotJsonResponse} \cup {JsonResponse(b) : b \in Bodies}
    ELSE {ConnectionFailure} \cup {HttpResponse(n) : n \in DirectStatuses}

(***************************************************************************)
(* State.                                                                  *)
(***************************************************************************)
VARIABLES
    file,             \* the lines of the input file
    args,             \* parse_args: concurrency, retries, oxylabs_username, oxylabs_password
    to_check,         \* Checker.to_check
    sem,              \* Checker.sem: the value of the semaphore
    retries,          \* Checker.retries
    mainpc,           \* main: "running", "exited", "crashed" (uncaught exception),
                      \* "interrupted" (KeyboardInterrupt caught)
    startpc,          \* Checker.start: "start", "gather", "returned", "raised", "cancelled"
    log,              \* the lines Checker.start and main printed
    valid_usernames,  \* Checker.start: valid_usernames; task t checks valid_usernames[t]
    client,           \* the transport Checker.start constructed: "none", or its class name
    session,          \* its aiohttp session: "none", "open", "closed"
    constructed,      \* every transport constructed so far
    pc,               \* per task: where _check_one is
    attempt,          \* per task: _check_one's attempt
    sleepLeft,        \* per task: time left of the asyncio.sleep it is in
    delays,           \* per task: the delays it has called asyncio.sleep with
    probes,           \* per task: the calls of client.fetch_status_code it has made
    wire,             \* per task: what the network answered its latest call with
    last,             \* per task: how its latest call of fetch_status_code ended
    printed,          \* per task: the lines it printed
    sink              \* the lines appended to the output file by this run

vars == <<file, args, to_check, sem, retries, mainpc, startpc, log, valid_usernames,
          client, session, constructed, pc, attempt, sleepLeft, delays, probes,
          wire, last, printed, sink>>

inputVars == <<file, args, to_check, retries>>
startVars == <<mainpc, startpc, log, valid_usernames, client, session, constructed>>

Tasks == DOMAIN pc
NotCalled == [kind |-> "none"]
NoAnswer == [wire |-> "none"]

Terminal == {"Hit", "Miss", "Unknown", "Errored"}
Done == Terminal \cup {"Crashed", "Cancelled"}

InFlight == {t \in Tasks : pc[t] = "InFlight"}

\* amain: parse_args, open_file, Checker(...)
InitWith(files, concurrencies, retryArgs, users, passes) ==
    /\ file \in files
    /\ args \in [concurrency : concurrencies, retries : retryArgs,
                 oxylabs_username : users, oxylabs_password : passes]
    /\ to_check = open_file(file)
    /\ sem = SemCapacity(args.concurrency)
    /\ retries = RetryBudget(args.retries)
    /\ mainpc = "running"
    /\ startpc = "start"
    /\ log = <<>>
    /\ valid_usernames = <<>>
    /\ client = "none"
    /\ session = "none"
    /\ constructed = <<>>
    /\ pc = <<>>
    /\ attempt = <<>>
    /\ sleepLeft = <<>>
    /\ delays = <<>>
    /\ probes = <<>>
    /\ wire = <<>>
    /\ last = <<>>
    /\ printed = <<>>
    /\ sink = <<>>

\* Any input file, any credentials, a concurrency below the minimum, no retry.
InitInputs ==
    InitWith(Files \cup {<<l>> : l \in OddLines}, {0}, {0}, Credentials, Credentials)

\* More usernames than slots, a small retry budget, both transports.
InitBatch ==
    /\ InitWith({<<al, bo, cy>>}, 1..MaxConcurrency, 0..MaxRetries,
                {None, JStr(<<"k">>)}, {None, JStr(<<"k">>)})
    /\ Truthy(args.oxylabs_username) = Truthy(args.oxylabs_password)

\* One username, a negative retry budget or one that reaches the cap of the backoff.
InitDeep ==
    /\ InitWith({<<al>>}, {1}, {-1, DeepRetries}, {None, JStr(<<"k">>)}, {None, JStr(<<"k">>)})
    /\ Truthy(args.oxylabs_username) = Truthy(args.oxylabs_password)

Init == InitInputs \/ InitBatch \/ InitDeep

(***************************************************************************)
(* write_file: one append of the argument and a newline.                   *)
(***************************************************************************)
\* The output file opened with mode 'w': every write replaces the file.
write_file_truncating(arg, out) == <<arg \o <<"\n">>>>

\* `f.write(arg)`: the newline left out.
write_file_without_newline(arg, out) == Append(out, arg)

write_file(arg, out) == Append(out, arg \o <<"\n">>)

\* The lines of the output file, without their newline.
SinkLines == [i \in DOMAIN sink |-> SubSeq(sink[i], 1, Len(sink[i]) - 1)]

(***************************************************************************)
(* Checker.start, up to `await asyncio.gather`: filter the names,  *)
(* return if none is valid, else construct the transport, enter it and     *)
(* create one task per valid username.                                     *)
(***************************************************************************)
SelectClient(user, pass) ==
    IF UseOxylabs(user, pass) THEN "OxylabsClient" ELSE "DirectClient"

Start ==
    /\ startpc = "start"
    /\ LET valid == ValidUsernames(to_check)
           skipped == Skipped(to_check)
           skipLine == IF skipped # <<>> THEN <<SkippingLine(Len(skipped))>> ELSE <<>>
           chosen == SelectClient(args.oxylabs_username, args.oxylabs_password)
       IN  /\ valid_usernames' = valid
           /\ IF valid = <<>>
              THEN /\ log' = skipLine \o <<NoValidLine>>
                   /\ startpc' = "returned"
                   /\ mainpc' = "exited"
                   /\ UNCHANGED <<client, session, constructed, pc, attempt, sleepLeft,
                                  delays, probes, wire, last, printed>>
              ELSE /\ log' = skipLine \o <<IF chosen = "OxylabsClient"
                                           THEN UsingOxylabsLine ELSE FallbackLine>>
                   /\ client' = chosen
                   /\ constructed' = Append(constructed, chosen)
                   /\ session' = "open"
                   /\ startpc' = "gather"
                   /\ pc' = [t \in DOMAIN valid |-> "Pending"]
                   /\ attempt' = [t \in DOMAIN valid |-> 0]
                   /\ sleepLeft' = [t \in DOMAIN valid |-> 0]
                   /\ delays' = [t \in DOMAIN valid |-> <<>>]
                   /\ probes' = [t \in DOMAIN valid |-> <<>>]
                   /\ wire' = [t \in DOMAIN valid |-> NoAnswer]
                   /\ last' = [t \in DOMAIN valid |-> NotCalled]
                   /\ printed' = [t \in DOMAIN valid |-> <<>>]
                   /\ UNCHANGED mainpc
    /\ UNCHANGED <<inputVars, sem, sink>>

(***************************************************************************)
(* Checker._check_one.                                                     *)
(***************************************************************************)
\* The network call made outside `async with self.sem`.
CanAcquireAlways(value) == TRUE

CanAcquire(value) == value > 0

\* `async with self.sem:` entered; client.fetch_status_code(url) is called.  A
\* closed session refuses the request (aiohttp raises RuntimeError), which leaves
\* the `async with` at once and is not caught by _check_one.
EnterFetch(t) ==
    /\ probes' = [probes EXCEPT ![t] =
                    Append(@, [url |-> UrlOf(valid_usernames[t]), via |-> client,
                               session |-> session])]
    /\ IF session = "open"
       THEN /\ sem' = sem - 1
            /\ pc' = [pc EXCEPT ![t] = "InFlight"]
            /\ UNCHANGED last
       ELSE /\ pc' = [pc EXCEPT ![t] = "Crashed"]
            /\ last' = [last EXCEPT ![t] = Raised("RuntimeError")]
            /\ UNCHANGED sem
    /\ UNCHANGED wire

\* `await asyncio.sleep(...)` returned although the delay has not passed.
AwakeEarly(left) == TRUE

\* `await asyncio.sleep(...)` returns once the delay has passed.
Awake(left) == left = 0

\* The task starts, or wakes from its backoff sleep: attempt += 1, then the
\* semaphore is taken or waited for.
Attempt(t) ==
    /\ pc[t] = "Pending" \/ (pc[t] = "Backoff" /\ Awake(sleepLeft[t]))
    /\ attempt' = [attempt EXCEPT ![t] = @ + 1]
    /\ IF CanAcquire(sem)
       THEN EnterFetch(t)
       ELSE /\ pc' = [pc EXCEPT ![t] = "WaitSem"]
            /\ UNCHANGED <<sem, probes, wire, last>>
    /\ UNCHANGED <<inputVars, startVars, sleepLeft, delays, printed, sink>>

\* A task waiting for the semaphore gets it.
Acquire(t) ==
    /\ pc[t] = "WaitSem"
    /\ CanAcquire(sem)
    /\ EnterFetch(t)
    /\ UNCHANGED <<inputVars, startVars, attempt, sleepLeft, delays, printed, sink>>

\* What the task does with a returned status: report, and write a hit.
Classified(t, out) ==
    LET username == valid_usernames[t]
        url == UrlOf(username)
        category == Classify(out.status)
    IN  /\ pc' = [pc EXCEPT ![t] = category]
        /\ printed' = [printed EXCEPT ![t] = Append(@,
               CASE category = "Hit" -> AvailableLine(url)
                 [] category = "Unknown" -> UnknownLine(username, out.raw)
                 [] OTHER -> UnavailableLine(url, out.status))]
        /\ sink' = IF category = "Hit" THEN write_file(username, sink) ELSE sink
        /\ UNCHANGED <<sleepLeft, delays>>

\* What the task does with aiohttp.ClientError or asyncio.TimeoutError.
Failed(t) ==
    IF ShouldRetry(attempt[t], retries)
    THEN /\ pc' = [pc EXCEPT ![t] = "Backoff"]
         /\ sleepLeft' = [sleepLeft EXCEPT ![t] = BackoffDelay(attempt[t])]
         /\ delays' = [delays EXCEPT ![t] = Append(@, BackoffDelay(attempt[t]))]
         /\ UNCHANGED <<printed, sink>>
    ELSE /\ pc' = [pc EXCEPT ![t] = "Errored"]
         /\ printed' = [printed EXCEPT ![t] = Append(@, ErrorLine(valid_usernames[t]))]
         /\ UNCHANGED <<sleepLeft, delays, sink>>

\* The semaphore kept after the call: no release on leaving `async with`.
ReleaseForgotten(value) == value

\* Leaving `async with self.sem`, by return or by exception.
Release(value) == value + 1

\* The network call of task t ends: the semaphore is released, and the task
\* runs on to its next suspension point or to its end.
FetchReturn(t) ==
    /\ pc[t] = "InFlight"
    /\ \E resp \in Responses(client) :
          LET out == fetch_status_code(client, resp)
          IN  /\ wire' = [wire EXCEPT ![t] = resp]
              /\ last' = [last EXCEPT ![t] = out]
              /\ CASE out.kind = "return" -> Classified(t, out)
                   [] out.kind = "TransportError" -> Failed(t)
                   [] out.kind = "raise" ->
                        /\ pc' = [pc EXCEPT ![t] = "Crashed"]
                        /\ UNCHANGED <<sleepLeft, delays, printed, sink>>
    /\ sem' = Release(sem)
    /\ UNCHANGED <<inputVars, startVars, attempt, probes>>

\* One unit of time passes for every task asleep.
Tick ==
    /\ \E t \in Tasks : pc[t] = "Backoff" /\ sleepLeft[t] > 0
    /\ sleepLeft' = [t \in Tasks |->
                       IF pc[t] = "Backoff" /\ sleepLeft[t] > 0
                       THEN sleepLeft[t] - 1 ELSE sleepLeft[t]]
    /\ UNCHANGED <<inputVars, startVars, sem, pc, attempt, delays, probes, wire,
                   last, printed, sink>>

(***************************************************************************)
(* Checker.start from `await asyncio.gather` on.                   *)
(***************************************************************************)
\* Every task returned: the transport is left, start, amain and main return.
GatherReturn ==
    /\ startpc = "gather"
    /\ \A t \in Tasks : pc[t] \in Terminal
    /\ session' = "closed"
    /\ startpc' = "returned"
    /\ mainpc' = "exited"
    /\ UNCHANGED <<inputVars, sem, log, valid_usernames, client, constructed, pc,
                   attempt, sleepLeft, delays, probes, wire, last, printed, sink>>

\* A task ended with an exception: gather raises it in start at once, the
\* transport is left and start raises; the other tasks are not awaited.
GatherRaise ==
    /\ startpc = "gather"
    /\ \E t \in Tasks : pc[t] = "Crashed"
    /\ session' = "closed"
    /\ startpc' = "raised"
    /\ UNCHANGED <<inputVars, sem, mainpc, log, valid_usernames, client, constructed,
                   pc, attempt, sleepLeft, delays, probes, wire, last, printed, sink>>

\* The tasks left running when asyncio.run ends.
CancelledNever(p) == p

\* asyncio.run cancels a task that has not ended: CancelledError is raised at
\* the await it is suspended in, which _check_one does not catch.
Cancelled(p) == IF p \in Done THEN p ELSE "Cancelled"

\* asyncio.run ends after the exception of amain: it cancels every task still
\* running and raises the exception, which main does not catch.
Teardown ==
    /\ startpc = "raised"
    /\ mainpc = "running"
    /\ pc' = [t \in Tasks |-> Cancelled(pc[t])]
    /\ sem' = sem + Cardinality(InFlight)
    /\ sleepLeft' = [t \in Tasks |-> 0]
    /\ mainpc' = "crashed"
    /\ UNCHANGED <<inputVars, startpc, log, valid_usernames, client, session,
                   constructed, attempt, delays, probes, wire, last, printed, sink>>

InterruptedLine == [line |-> "Interrupted by user"]

\* KeyboardInterrupt while the batch is awaited: asyncio.run cancels start, which
\* leaves the transport, and every task still running; main catches the
\* interrupt and prints its message.
Interrupt ==
    /\ startpc = "gather"
    /\ mainpc = "running"
    /\ pc' = [t \in Tasks |-> Cancelled(pc[t])]
    /\ sem' = sem + Cardinality(InFlight)
    /\ session' = "closed"
    /\ startpc' = "cancelled"
    /\ mainpc' = "interrupted"
    /\ sleepLeft' = [t \in Tasks |-> 0]
    /\ log' = Append(log, InterruptedLine)
    /\ UNCHANGED <<inputVars, valid_usernames, client, constructed, attempt,
                   delays, probes, wire, last, printed, sink>>

\* The network call of task t ends as the request timeout makes it end: with a
\* status or with a transport error.
FetchEnds(t) == FetchReturn(t) /\ last'[t].kind # "raise"

Next ==
    \/ Start
    \/ \E t \in Tasks : Attempt(t)
    \/ \E t \in Tasks : Acquire(t)
    \/ \E t \in Tasks : FetchReturn(t)
    \/ Tick
    \/ GatherReturn
    \/ GatherRaise
    \/ Teardown
    \/ Interrupt

Spec == Init /\ [][Next]_vars

(***************************************************************************)
(* The batch left to itself: no interrupt, every network call ends with a  *)
(* status or a transport error.  The event loop runs every task that can   *)
(* run, every call ends, and time passes.                                  *)
(***************************************************************************)
TaskIds == 1..MaxLines

NextLive ==
    \/ Start
    \/ \E t \in Tasks : Attempt(t)
    \/ \E t \in Tasks : Acquire(t)
    \/ \E t \in Tasks : FetchEnds(t)
    \/ Tick
    \/ GatherReturn

Fairness ==
    /\ WF_vars(Start)
    /\ WF_vars(Tick)
    /\ WF_vars(GatherReturn)
    /\ \A t \in TaskIds : WF_vars(t \in Tasks /\ Attempt(t))
    /\ \A t \in TaskIds : WF_vars(t \in Tasks /\ Acquire(t))
    /\ \A t \in TaskIds : WF_vars(t \in Tasks /\ FetchEnds(t))

InitLive == InitBatch \/ InitDeep

SpecLive == InitLive /\ [][NextLive]_vars /\ Fairness

(***************************************************************************)
(* Properties.                                                             *)
(***************************************************************************)
Username(t) == valid_usernames[t]
Got404(t) == last[t].kind = "return" /\ last[t].status = JInt(404)
TimesWritten(u) == Cardinality({i \in DOMAIN sink : SinkLines[i] = u})
Supplied(v) == v # None /\ v # JStr(<<>>)
Running == {"Pending", "WaitSem", "InFlight", "Backoff"}

\* C1: with concurrency limit C >= 1 the number of tasks inside
\* client.fetch_status_code is at most C in every reachable state (and at most 1
\* when the configured limit is below 1).
C1_ConcurrencyBound ==
    Cardinality(InFlight) <= (IF args.concurrency >= 1 THEN args.concurrency ELSE 1)

\* More valid usernames than slots, every slot taken, a task waiting for one.
C1_Witness ==
    /\ args.concurrency >= 1
    /\ Len(valid_usernames) > args.concurrency
    /\ Cardinality(InFlight) = args.concurrency
    /\ \E t \in Tasks : pc[t] = "WaitSem"

\* C2: a task whose every attempt raised a transport error makes exactly
\* retries+1 attempts before it is abandoned, and the delay slept after failed
\* attempt k is min(2^(k-1), 10).
C2_RetryBound ==
    \A t \in Tasks :
        /\ Len(probes[t]) <= retries + 1
        /\ \A k \in DOMAIN delays[t] :
              delays[t][k] = (IF 2^(k - 1) < 10 THEN 2^(k - 1) ELSE 10)
        /\ pc[t] = "Backoff" => Len(delays[t]) = attempt[t] /\ attempt[t] <= retries
        /\ pc[t] = "Errored" =>
              /\ attempt[t] = retries + 1
              /\ Len(probes[t]) = retries + 1
              /\ Len(delays[t]) = retries

\* A task abandoned after enough failures for the delay to have reached its cap.
C2_Witness ==
    \E t \in Tasks :
        /\ pc[t] = "Errored"
        /\ Len(delays[t]) >= 5
        /\ delays[t][4] = 8
        /\ delays[t][5] = 10

\* C3: the lines appended to the output file are valid, stripped lines of the
\* input file, no line is appended twice, and a line is appended only for a
\* username whose transport call returned status 404.
C3_SinkSound ==
    /\ \A i \in DOMAIN sink :
          /\ SinkLines[i] \in Range(StripLines(file))
          /\ is_valid_instagram_username(SinkLines[i])
          /\ \E t \in Tasks : Username(t) = SinkLines[i] /\ Got404(t)
    /\ \A i, j \in DOMAIN sink : SinkLines[i] = SinkLines[j] => i = j

\* A finished batch whose input repeated a name and held an invalid one, with a hit.
C3_Witness ==
    /\ startpc = "returned"
    /\ sink # <<>>
    /\ Len(StripLines(file)) > Len(to_check)
    /\ Skipped(to_check) # <<>>

\* C4: once Checker.start has returned or raised, every username for which a
\* transport call returned 404 has its line in the output file.
C4_NoLostResults ==
    startpc \in {"returned", "raised"} =>
        \A t \in Tasks : Got404(t) => Username(t) \in Range(SinkLines)

\* Two hits and an abandoned username in one finished batch.
C4_Witness ==
    /\ startpc = "returned"
    /\ \E t, u, v \in Tasks :
          /\ t # u
          /\ Got404(t) /\ Got404(u)
          /\ pc[v] = "Errored"

\* C5: a returned status selects exactly one category: the integer 404 a hit
\* (AVAILABLE line, one append of the username), None the unknown (warning with
\* the raw payload, no write), any other integer a miss (UNAVAILABLE line with
\* the status, no write).
C5_Classification ==
    \A t \in Tasks :
        last[t].kind = "return" =>
            LET status == last[t].status
                url == <<"https://www.instagram.com/">> \o Username(t) \o <<"/">>
            IN  /\ status = JInt(404) =>
                      /\ pc[t] = "Hit"
                      /\ printed[t] = <<AvailableLine(url)>>
                      /\ TimesWritten(Username(t)) = 1
                /\ status = None =>
                      /\ pc[t] = "Unknown"
                      /\ printed[t] = <<UnknownLine(Username(t), last[t].raw)>>
                      /\ TimesWritten(Username(t)) = 0
                /\ (status.j = "int" /\ status # JInt(404)) =>
                      /\ pc[t] = "Miss"
                      /\ printed[t] = <<UnavailableLine(url, status)>>
                      /\ TimesWritten(Username(t)) = 0

\* One batch with a hit, a miss and an unknown.
C5_Witness ==
    \E t, u, v \in Tasks :
        /\ pc[t] = "Hit" /\ last[t].status = JInt(404)
        /\ pc[u] = "Miss" /\ last[u].status = JInt(200)
        /\ pc[v] = "Unknown" /\ last[v].status = None

\* C6: Checker.start has not returned or raised while a task is still
\* pending, attempting or in backoff.
C6_StartAwaitsEveryTask ==
    startpc \in {"returned", "raised"} => \A t \in Tasks : pc[t] \notin Running

\* C7: a failure in one task stays in that task: it never ends Checker.start
\* or the process with an exception, and no other task is cancelled for it.
C7_FailureIsolation ==
    /\ startpc # "raised"
    /\ mainpc # "crashed"
    /\ \A t \in Tasks : pc[t] # "Cancelled"

\* C8: a task that failed with a transport error on attempt retries+1 is
\* abandoned: it has printed its one error line and nothing else, nothing was
\* written for its username, it makes no further attempt, and Checker.start
\* raises only if some task ended with an uncaught exception.
C8_Abandoned ==
    /\ [](\A t \in Tasks :
            pc[t] = "Errored" =>
                /\ attempt[t] = retries + 1
                /\ Len(probes[t]) = retries + 1
                /\ printed[t] = <<ErrorLine(Username(t))>>
                /\ TimesWritten(Username(t)) = 0)
    /\ []((\A t \in Tasks : pc[t] \in Terminal) => startpc # "raised" /\ mainpc # "crashed")
    /\ [][\A t \in Tasks :
            pc[t] = "Errored" =>
                /\ pc'[t] = "Errored"
                /\ attempt'[t] = attempt[t]
                /\ probes'[t] = probes[t]
                /\ printed'[t] = printed[t]
                /\ sleepLeft'[t] = sleepLeft[t]]_vars

\* A batch that ended normally with an abandoned username, retried once, and a hit.
C8_Witness ==
    /\ mainpc = "exited"
    /\ retries >= 1
    /\ \E t, u \in Tasks : pc[t] = "Errored" /\ pc[u] = "Hit"

\* C9: one transport is constructed per batch, OxylabsClient exactly when a
\* username and a password are both supplied (neither None nor empty), else
\* DirectClient, and every call of fetch_status_code goes to it.
C9_OneTransport ==
    /\ Len(constructed) <= 1
    /\ startpc = "start" => constructed = <<>>
    /\ constructed # <<>> =>
          /\ client = constructed[1]
          /\ client = "OxylabsClient" <=>
                Supplied(args.oxylabs_username) /\ Supplied(args.oxylabs_password)
          /\ client = "DirectClient" <=>
                ~(Supplied(args.oxylabs_username) /\ Supplied(args.oxylabs_password))
    /\ \A t \in Tasks : \A i \in DOMAIN probes[t] : probes[t][i].via = constructed[1]

\* A retry through OxylabsClient, and a first call through it by another task.
C9_Witness ==
    /\ client = "OxylabsClient"
    /\ \E t, u \in Tasks : t # u /\ Len(probes[t]) >= 2 /\ Len(probes[u]) >= 1

\* C10: every call of fetch_status_code is for a username of to_check that
\* passes is_valid_instagram_username, as it stands in to_check; and when no
\* username is valid, Checker.start returns with no transport, no session and
\* no task.
C10_NoProbeForInvalid ==
    /\ \A t \in Tasks : \A i \in DOMAIN probes[t] :
          \E u \in Range(to_check) :
              /\ is_valid_instagram_username(u)
              /\ probes[t][i].url = <<"https://www.instagram.com/">> \o u \o <<"/">>
    /\ (\A u \in Range(to_check) : ~is_valid_instagram_username(u)) =>
          /\ client = "none" /\ constructed = <<>> /\ session = "none"
          /\ Tasks = {}
          /\ startpc # "start" =>
                /\ startpc = "returned" /\ mainpc = "exited"
                /\ log[Len(log)] = NoValidLine

\* An invalid name skipped whose letters alone are no name of the input, beside a probed one.
C10_Witness ==
    /\ <<"b", "o", "!">> \in Range(to_check)
    /\ bo \notin Range(to_check)
    /\ \E t \in Tasks : probes[t] # <<>>
    /\ startpc = "returned"

\* The batch ended at once: names were read, none valid.
C10_WitnessNoneValid ==
    /\ to_check # <<>>
    /\ startpc = "returned"
    /\ constructed = <<>>

\* The characters of the output file: its writes, one after the other.
RECURSIVE Flatten(_)
Flatten(chunks) == IF chunks = <<>> THEN <<>> ELSE Head(chunks) \o Flatten(Tail(chunks))

\* The complete lines of a text, without their newlines, and what follows the
\* last newline.
RECURSIVE SplitLines(_, _, _)
SplitLines(text, current, lines) ==
    IF text = <<>> THEN [lines |-> lines, rest |-> current]
    ELSE IF Head(text) = "\n"
         THEN SplitLines(Tail(text), <<>>, Append(lines, current))
         ELSE SplitLines(Tail(text), Append(current, Head(text)), lines)

FileLines == SplitLines(Flatten(sink), <<>>, <<>>)

\* C11: an interrupt ends the batch: every task still pending, attempting or in
\* backoff is cancelled instead of awaited, no call of fetch_status_code, report
\* or write follows it, main prints its message once and last, and the output
\* file holds complete newline-terminated lines only.
C11_Cancellation ==
    /\ [](mainpc = "interrupted" =>
            /\ \A t \in Tasks : pc[t] \notin Running
            /\ session = "closed"
            /\ log[Len(log)] = InterruptedLine
            /\ Cardinality({i \in DOMAIN log : log[i] = InterruptedLine}) = 1
            /\ FileLines.rest = <<>>
            /\ \A i \in DOMAIN FileLines.lines :
                  FileLines.lines[i] \in Range(valid_usernames))
    /\ [][mainpc # "interrupted" /\ mainpc' = "interrupted" =>
            /\ \A t \in Tasks : pc[t] \in Running => pc'[t] = "Cancelled"
            /\ \A t \in Tasks : pc[t] \notin Running => pc'[t] = pc[t]
            /\ probes' = probes /\ sink' = sink /\ printed' = printed]_vars
    /\ [][mainpc = "interrupted" =>
            /\ probes' = probes /\ sink' = sink /\ printed' = printed
            /\ pc' = pc /\ log' = log /\ mainpc' = mainpc]_vars

\* Interrupted with one task in flight, one in backoff, and a hit already written.
C11_Witness ==
    /\ mainpc = "interrupted"
    /\ sink # <<>>
    /\ \E t, u \in Tasks :
          /\ pc[t] = "Cancelled" /\ last[t] = NotCalled /\ probes[t] # <<>>
          /\ pc[u] = "Cancelled" /\ last[u] = TransportError

\* C12: the units taken from the semaphore are exactly those of the tasks
\* inside client.fetch_status_code: a task waiting, asleep in backoff,
\* classifying or ended holds none, so a unit is free for a waiting task
\* whenever fewer than the limit are in flight.
C12_SlotOnlyInFlight ==
    LET limit == IF args.concurrency >= 1 THEN args.concurrency ELSE 1
    IN  /\ sem + Cardinality(InFlight) = limit
        /\ (\E t \in Tasks : pc[t] = "Backoff") /\ Cardinality(InFlight) < limit => sem > 0

\* One slot: a task asleep in backoff while another task is in flight.
C12_Witness ==
    /\ args.concurrency = 1
    /\ \E t, u \in Tasks :
          /\ pc[t] = "Backoff" /\ sleepLeft[t] > 0
          /\ pc[u] = "InFlight"

\* C13: a task calls fetch_status_code again only after its previous call
\* failed with a transport error and the backoff sleep that followed has run
\* out, one attempt at a time, and never while a call of its own is in flight.
C13_Sequential ==
    [][\A t \in Tasks :
          /\ Len(probes'[t]) <= Len(probes[t]) + 1
          /\ Len(probes'[t]) = Len(probes[t]) + 1 =>
                /\ pc[t] # "InFlight"
                /\ probes[t] # <<>> =>
                      /\ last[t] = TransportError
                      /\ Len(delays[t]) = Len(probes[t])
                      /\ sleepLeft[t] = 0
          /\ attempt'[t] # attempt[t] =>
                /\ attempt'[t] = attempt[t] + 1
                /\ attempt[t] = Len(probes[t])
                /\ attempt[t] > 0 =>
                      /\ pc[t] = "Backoff"
                      /\ last[t] = TransportError
                      /\ sleepLeft[t] = 0]_vars

\* A third call in flight, after two failures and their sleeps of 1 and 2.
C13_Witness ==
    \E t \in Tasks :
        /\ pc[t] = "InFlight"
        /\ Len(probes[t]) = 3
        /\ delays[t] = <<1, 2>>

\* The transitions of a check task, Attempting being WaitSem or InFlight.
StateMachineMoves ==
    {<<"Pending", "WaitSem">>, <<"Pending", "InFlight">>,
     <<"WaitSem", "InFlight">>, <<"Backoff", "WaitSem">>,
     <<"Backoff", "InFlight">>, <<"InFlight", "Backoff">>}
    \cup {<<"InFlight", p>> : p \in Terminal}

\* C14: a task moves only Pending -> Attempting -> {Hit, Miss, Unknown,
\* Errored} and Attempting -> Backoff -> Attempting, its attempt counter stays
\* within retries+1, and nothing happens for it once it is Hit, Miss, Unknown
\* or Errored (the cancellation of an interrupt apart).
C14_StateMachine ==
    [][mainpc' # "interrupted" =>
         \A t \in Tasks :
            /\ pc'[t] # pc[t] => <<pc[t], pc'[t]>> \in StateMachineMoves
            /\ attempt'[t] <= retries + 1
            /\ Len(delays'[t]) <= retries
            /\ pc[t] \in Terminal =>
                  /\ pc'[t] = pc[t]
                  /\ probes'[t] = probes[t]
                  /\ delays'[t] = delays[t]
                  /\ printed'[t] = printed[t]
                  /\ TimesWritten(Username(t))' = TimesWritten(Username(t))]_vars

\* C16: an error other than a transport error is not retried (no sleep, no
\* further call for that username) and touches no other username: no other
\* task is cancelled for it.
C16_OnlyTransportErrorRetried ==
    \A t \in Tasks :
        last[t].kind = "raise" =>
            /\ pc[t] = "Crashed"
            /\ Len(delays[t]) = Len(probes[t]) - 1
            /\ mainpc # "interrupted" => \A u \in Tasks \ {t} : pc[u] # "Cancelled"

\* C17: every body that parsed as JSON yields an outcome, resolved from the
\* first element of `results` when the body is a mapping with a non-empty
\* `results`, and from the body itself otherwise.
C17_ResponseShape ==
    \A t \in Tasks :
        wire[t].wire = "json" =>
            LET data == wire[t].data
                results == data.fields["results"]
                wrapped == /\ data.j = "dict"
                           /\ "results" \in DOMAIN data.fields
                           /\ results # None
                           /\ results # JList(<<>>)
                           /\ results # JDict(<<>>)
            IN  /\ last[t].kind = "return"
                /\ ~wrapped => last[t].raw = data
                /\ (wrapped /\ results.j = "list") => last[t].raw = results.items[1]

\* C18: the status of an Oxylabs outcome is the `status_code` field of the
\* resolved object when it has one, else its `status` field when it has one,
\* else None; None also when the resolved object is no mapping.
C18_StatusExtraction ==
    \A t \in Tasks :
        (client = "OxylabsClient" /\ last[t].kind = "return") =>
            LET resolved == last[t].raw
            IN  last[t].status =
                    IF resolved.j # "dict" THEN None
                    ELSE IF "status_code" \in DOMAIN resolved.fields
                         THEN resolved.fields["status_code"]
                    ELSE IF "status" \in DOMAIN resolved.fields
                         THEN resolved.fields["status"]
                    ELSE None

\* C19: the output file is a sequence of complete lines, one per hit, each a
\* checked username followed by a newline; and a task reports and writes in the
\* step in which its call returned, in which no other task moves.
C19_LineAtomicity ==
    /\ [](/\ FileLines.rest = <<>>
          /\ Len(FileLines.lines) = Cardinality({t \in Tasks : pc[t] = "Hit"})
          /\ \A i \in DOMAIN FileLines.lines :
                \E t \in Tasks : pc[t] = "Hit" /\ FileLines.lines[i] = Username(t))
    /\ [][\A t \in Tasks :
            (pc[t] = "InFlight" /\ pc'[t] \in Terminal) =>
                /\ Len(printed'[t]) = Len(printed[t]) + 1
                /\ IF pc'[t] = "Hit"
                   THEN Flatten(sink') = Flatten(sink) \o Username(t) \o <<"\n">>
                   ELSE sink' = sink
                /\ \A u \in Tasks \ {t} :
                      pc'[u] = pc[u] /\ printed'[u] = printed[u]]_vars
    /\ [][sink' # sink => \E t \in Tasks : pc[t] = "InFlight" /\ pc'[t] = "Hit"]_vars

\* Two hits on file while a third task is still in flight.
C19_Witness ==
    /\ Len(sink) = 2
    /\ \E t \in Tasks : pc[t] = "InFlight"

\* C20: the session is open whenever a request is in flight (a request is
\* issued on an open session only, and none is left in flight when the session
\* closes), and closed once Checker.start has ended, however it ended.
C20_SessionScope ==
    /\ \A t \in Tasks : pc[t] = "InFlight" => session = "open"
    /\ (startpc \in {"returned", "raised", "cancelled"} /\ constructed # <<>>) =>
          session = "closed"

\* C15: left to itself, with every network call ending in a status or a
\* transport error and every sleep running out, the batch ends: every task
\* reaches Hit, Miss, Unknown or Errored and Checker.start returns.
C15_Termination ==
    <>(/\ startpc = "returned"
       /\ mainpc = "exited"
       /\ \A t \in Tasks : pc[t] \in Terminal)

\* More usernames than slots, a task that waited for a slot and had to retry.
C15_Witness ==
    /\ startpc = "returned"
    /\ Len(valid_usernames) > args.concurrency
    /\ \E t, u \in Tasks : pc[t] = "Errored" /\ delays[t] # <<>> /\ pc[u] = "Hit"

====
